---- MODULE Spec2Model ----
(***************************************************************************)
(* AutoVisQA, src/analysis: the insight engine (ai_insight_engine.py) and  *)
(* the run discovery of the web recorder and of the report generator.      *)
(*                                                                         *)
(* Numbers.  Elapsed times are Python floats in the source.  The model     *)
(* takes them from the integers (every value used is exactly representable *)
(* as a float) and evaluates quotients, means and standard deviations as   *)
(* exact rationals: a comparison  a/b >= c  is decided on cross products.  *)
(* Indices returned by the outlier functions are Python's, 0-based; a      *)
(* Python list  xs  is the sequence  xs  with  xs[i]  at  xs[i + 1].       *)
(***************************************************************************)
EXTENDS Integers, Sequences, FiniteSets, TLC

VARIABLES
    listing,    \* os.listdir(RESULTS_DIR), directories only, in listing order
    mtime,      \* folder name -> os.path.getmtime of the folder
    csv,        \* folder name -> results/<folder>/crawl_metrics.csv
    summary,    \* folder name -> results/<folder>/summary.json
    visual,     \* results/visual_diffs/visual_diff_summary.json
    pandas,     \* "pd is not None": the tabular reader is importable
    openai,     \* the text-generation collaborator: off, or how its call ends
    weasyprint, \* "HTML is not None": the PDF writer is importable
    clock,      \* the time the next operation runs at
    report,     \* results/research_report.html
    pdf,        \* results/research_report.pdf
    insights,   \* results/ai_insights.json
    snippet,    \* results/ai_insights_snippet.html
    values,     \* the sample handed to the outlier functions
    iqr_idx,    \* what iqr_outliers(values) returned
    z_idx,      \* what zscore_outliers(values, 2.5) returned
    ret         \* what the last operation returned or raised

fsVars == <<listing, mtime, csv, summary, visual>>
envVars == <<pandas, openai, weasyprint>>
outVars == <<report, pdf, insights, snippet>>
sampleVars == <<values, iqr_idx, z_idx>>
vars == <<fsVars, envVars, outVars, sampleVars, clock, ret>>

(***************************************************************************)
(* Sequences and exact arithmetic                                          *)
(***************************************************************************)
Abs(x) == IF x < 0 THEN -x ELSE x

RECURSIVE SumSeq(_)
SumSeq(s) == IF s = <<>> THEN 0 ELSE Head(s) + SumSeq(Tail(s))

RECURSIVE Insert(_, _)
Insert(x, s) ==
    IF s = <<>> THEN <<x>>
    ELSE IF x < Head(s) THEN <<x>> \o s
    ELSE <<Head(s)>> \o Insert(x, Tail(s))

\* sorted(values): ascending
RECURSIVE Sorted(_)
Sorted(s) == IF s = <<>> THEN <<>> ELSE Insert(Head(s), Sorted(Tail(s)))

\* The members of a finite set of integers as an ascending sequence
RECURSIVE AscSeq(_)
AscSeq(S) ==
    IF S = {} THEN <<>>
    ELSE LET m == CHOOSE x \in S : \A y \in S : x <= y
         IN  <<m>> \o AscSeq(S \ {m})

\* [i for i, v in enumerate(xs) if ...]: K holds the positions 1..Len(xs)
\* that pass the test; the result is their 0-based indices, ascending
IndicesOf(K) == AscSeq({k - 1 : k \in K})

InList(i, xs) == \E k \in 1..Len(xs) : xs[k] = i

ListSet(xs) == {xs[k] : k \in 1..Len(xs)}

\* All sequences over S of length at most n
SeqsUpTo(S, n) == UNION {[1..k -> S] : k \in 0..n}

(***************************************************************************)
(* OutlierDetector                                                         *)
(***************************************************************************)
\* int(len(vals) * 0.25) and int(len(vals) * 0.75): the products are exact
\* in floating point for every list length, and int() truncates
Q1Index(n) == n \div 4
Q3Index(n) == (3 * n) \div 4

iqr_outliers_no_degenerate_guard(vals0) ==
    IF vals0 = <<>> THEN <<>>
    ELSE LET vals == Sorted(vals0)
             q1 == vals[Q1Index(Len(vals)) + 1]
             q3 == vals[Q3Index(Len(vals)) + 1]
             iqr == q3 - q1
             Over(v) == 2 * v > 2 * q3 + 3 * iqr
         IN  IndicesOf({j \in 1..Len(vals0) : Over(vals0[j])})

\* v > q3 + 1.5 * iqr, decided as 2 v > 2 q3 + 3 iqr
iqr_outliers(vals0) ==
    IF vals0 = <<>> THEN <<>>
    ELSE LET vals == Sorted(vals0)
             q1 == vals[Q1Index(Len(vals)) + 1]
             q3 == vals[Q3Index(Len(vals)) + 1]
             iqr == q3 - q1
             Over(v) == 2 * v > 2 * q3 + 3 * iqr
         IN  IF iqr = 0 THEN <<>> ELSE IndicesOf({j \in 1..Len(vals0) : Over(vals0[j])})

RECURSIVE SumSquares(_)
SumSquares(s) == IF s = <<>> THEN 0 ELSE Head(s) * Head(s) + SumSquares(Tail(s))

\* n^2 times the population variance of vals0: n * sum(v^2) - sum(v)^2
PVarianceN2(vals0) ==
    Len(vals0) * SumSquares(vals0) - SumSeq(vals0) * SumSeq(vals0)

zscore_outliers_sample_stdev(vals0, thrNum, thrDen) ==
    IF Len(vals0) < 2 THEN <<>>
    ELSE LET n == Len(vals0)
             S == SumSeq(vals0)
             V == PVarianceN2(vals0)
             Far(v) == thrDen * thrDen * (n * v - S) * (n * v - S) * (n - 1)
                           >= thrNum * thrNum * V * n
         IN  IF V = 0 THEN <<>> ELSE IndicesOf({j \in 1..Len(vals0) : Far(vals0[j])})

\* threshold = thrNum / thrDen.  With mean = S / n and stdev = sqrt(V) / n,
\* abs((v - mean) / stdev) >= threshold  iff
\* thrDen^2 * (n v - S)^2 >= thrNum^2 * V   (stdev > 0)
zscore_outliers(vals0, thrNum, thrDen) ==
    IF Len(vals0) < 2 THEN <<>>
    ELSE LET n == Len(vals0)
             S == SumSeq(vals0)
             V == PVarianceN2(vals0)
             Far(v) == thrDen * thrDen * (n * v - S) * (n * v - S)
                           >= thrNum * thrNum * V
         IN  IF V = 0 THEN <<>> ELSE IndicesOf({j \in 1..Len(vals0) : Far(vals0[j])})

(***************************************************************************)
(* RunStore: the two per-run sources and load_crawl_metrics                *)
(*                                                                         *)
(* A field value is a record: a number, a text that float() accepts, a     *)
(* text that it rejects, or None (a missing key reads as None through      *)
(* dict.get).  A url is a string, NoUrl standing for a missing or null url.*)
(***************************************************************************)
Num(n) == [k |-> "num", v |-> n]
NumText(n) == [k |-> "numtext", v |-> n]
BadText == [k |-> "text", v |-> 0]
Null == [k |-> "null", v |-> 0]
NoUrl == "<None>"

\* float(t) succeeds
Coercible(c) == c.k \in {"num", "numtext"}
\* float(t), where it succeeds
Float(c) == c.v

CsvAbsent == [state |-> "absent", cols |-> FALSE, rows |-> <<>>]
\* pd.read_csv raises (an empty or malformed file)
CsvInvalid == [state |-> "invalid", cols |-> FALSE, rows |-> <<>>]
CsvFile(hasCols, rows) == [state |-> "ok", cols |-> hasCols, rows |-> rows]
CsvRow(u, c) == [url |-> u, timeTaken |-> c]

JsonAbsent == [state |-> "absent", data |-> <<>>]
\* json.load raises
JsonInvalid == [state |-> "invalid", data |-> <<>>]
JsonFile(data) == [state |-> "ok", data |-> data]
JsonRecord(u, c) == [rec |-> TRUE, url |-> u, timeTaken |-> c]
\* an array entry that is not an object: it has no .get
NonRecord == [rec |-> FALSE, url |-> NoUrl, timeTaken |-> Null]

\* The rows appended by the loop of lines 76-77 before float() first raises
RECURSIVE RowsAppended(_)
RowsAppended(rows) ==
    IF rows = <<>> THEN <<>>
    ELSE IF ~Coercible(Head(rows).timeTaken) THEN <<>>
    ELSE <<(<<Head(rows).url, Float(Head(rows).timeTaken)>>)>>
             \o RowsAppended(Tail(rows))

\* Lines 71-80: [returned, metrics]; metrics is the local list as the try
\* block leaves it, whether it returned or the except clause passed
ReadTabular(c, pd) ==
    IF ~pd \/ c.state = "absent" THEN [returned |-> FALSE, metrics |-> <<>>]
    ELSE IF c.state = "invalid" THEN [returned |-> FALSE, metrics |-> <<>>]
    ELSE IF ~c.cols THEN [returned |-> FALSE, metrics |-> <<>>]
    ELSE LET got == RowsAppended(c.rows)
         IN  [returned |-> Len(got) = Len(c.rows), metrics |-> got]

\* Lines 86-93 on a list of records: the records with url and timeTaken
\* present and timeTaken coercible, in file order
RECURSIVE JsonAppended(_)
JsonAppended(data) ==
    IF data = <<>> THEN <<>>
    ELSE LET p == Head(data)
             keep == p.url # NoUrl /\ p.timeTaken # Null /\ Coercible(p.timeTaken)
         IN  (IF keep THEN <<(<<p.url, Float(p.timeTaken)>>)>> ELSE <<>>)
                 \o JsonAppended(Tail(data))

\* load_crawl_metrics(folder) on the two sources: [raised, metrics]
LoadCrawlMetricsOf(c, j, pd) ==
    LET tab == ReadTabular(c, pd)
    IN  IF tab.returned THEN [raised |-> FALSE, metrics |-> tab.metrics]
        ELSE IF j.state = "absent" THEN [raised |-> FALSE, metrics |-> tab.metrics]
        ELSE IF j.state = "invalid" THEN [raised |-> TRUE, metrics |-> <<>>]
        ELSE IF \E k \in 1..Len(j.data) : ~j.data[k].rec
             THEN [raised |-> TRUE, metrics |-> <<>>]
        ELSE [raised |-> FALSE, metrics |-> tab.metrics \o JsonAppended(j.data)]

load_crawl_metrics(folder) == LoadCrawlMetricsOf(csv[folder], summary[folder], pandas)

(***************************************************************************)
(* The visual-diff source and the output files                             *)
(***************************************************************************)
\* a key that the record does not have: dict.get(key, 0) reads 0
Missing == [k |-> "missing", v |-> 0]

VisualAbsent == [state |-> "absent", data |-> <<>>]
\* json.load raises
VisualInvalid == [state |-> "invalid", data |-> <<>>]
VisualFile(data) == [state |-> "ok", data |-> data]
\* {"url": u, "page": pg, "diffPercent": c}; NoUrl for a key not present
VisualRecord(u, pg, c) == [rec |-> TRUE, url |-> u, page |-> pg, diffPercent |-> c]
VisualNonRecord == [rec |-> FALSE, url |-> NoUrl, page |-> NoUrl, diffPercent |-> Missing]

NoFile == [exists |-> FALSE]
ReportAbsent == [exists |-> FALSE, body |-> FALSE, injected |-> <<>>]
\* research_report.html: whether it holds "</body>", and the snippets
\* injected before it so far
ReportFile(hasBody, snippets) ==
    [exists |-> TRUE, body |-> hasBody, injected |-> snippets]

(***************************************************************************)
(* Exact rationals for means and percentages; None for "undefined"         *)
(***************************************************************************)
RECURSIVE Gcd(_, _)
Gcd(a, b) == IF b = 0 THEN a ELSE Gcd(b, a % b)

\* n / d in lowest terms with a positive denominator (d # 0)
Rat(n, d) ==
    LET g == Gcd(Abs(n), Abs(d))
        sgn == IF d < 0 THEN -1 ELSE 1
    IN  [none |-> FALSE, n |-> sgn * (n \div g), d |-> sgn * (d \div g)]

None == [none |-> TRUE, n |-> 0, d |-> 1]

RSub(x, y) == Rat(x.n * y.d - y.n * x.d, x.d * y.d)
RDiv(x, y) == Rat(x.n * y.d, x.d * y.n)
RScale(x, k) == Rat(x.n * k, x.d)
RAbs(x) == Rat(Abs(x.n), x.d)
RGreater(x, k) == x.n > k * x.d
RAtLeast(x, k) == x.n >= k * x.d

\* statistics.mean(xs), xs non-empty
Mean(xs) == Rat(SumSeq(xs), Len(xs))

(***************************************************************************)
(* RunStore: the run catalog                                               *)
(***************************************************************************)
RECURSIVE SelectRuns(_, _)
\* [f for f in os.listdir(...) if isdir(f) and f not in excluded]
SelectRuns(names, excluded) ==
    IF names = <<>> THEN <<>>
    ELSE (IF Head(names) \in excluded THEN <<>> ELSE <<Head(names)>>)
             \o SelectRuns(Tail(names), excluded)

\* x placed after every element whose key is not greater than x's
RECURSIVE InsertByKey(_, _, _)
InsertByKey(x, s, key) ==
    IF s = <<>> THEN <<x>>
    ELSE IF key[x] < key[Head(s)] THEN <<x>> \o s
    ELSE <<Head(s)>> \o InsertByKey(x, Tail(s), key)

\* sorted(folders, key=getmtime): ascending and stable
RECURSIVE SortedByKey(_, _)
SortedByKey(s, key) ==
    IF s = <<>> THEN <<>>
    ELSE InsertByKey(s[Len(s)], SortedByKey(SubSeq(s, 1, Len(s) - 1), key), key)

\* a discovery that forgets the charts folder
EngineExcludedWithoutCharts == {"visual_diffs"}

EngineExcluded == {"visual_diffs", "charts"}

\* latest_results_folder(): [raised, latest, folders_sorted]
latest_results_folder ==
    LET folders == SelectRuns(listing, EngineExcluded)
        folders_sorted == SortedByKey(folders, mtime)
    IN  IF folders = <<>>
        THEN [raised |-> TRUE, latest |-> "", folders_sorted |-> <<>>]
        ELSE [raised |-> FALSE, latest |-> folders_sorted[Len(folders_sorted)],
              folders_sorted |-> folders_sorted]

(***************************************************************************)
(* PerformanceAnomalyAnalyzer                                              *)
(***************************************************************************)
Times(metrics) == [i \in 1..Len(metrics) |-> metrics[i][2]]

\* Lines 178-185: the prior runs scanned from the most recent one back;
\* [raised, found, folder, metrics]
RECURSIVE FindBaseline(_)
FindBaseline(prior) ==
    IF prior = <<>>
    THEN [raised |-> FALSE, found |-> FALSE, folder |-> "", metrics |-> <<>>]
    ELSE LET f == prior[Len(prior)]
             candidate == load_crawl_metrics(f)
         IN  IF candidate.raised
             THEN [raised |-> TRUE, found |-> FALSE, folder |-> "", metrics |-> <<>>]
             ELSE IF candidate.metrics # <<>>
             THEN [raised |-> FALSE, found |-> TRUE, folder |-> f,
                   metrics |-> candidate.metrics]
             ELSE FindBaseline(SubSeq(prior, 1, Len(prior) - 1))

\* prev_map = {u: float(t) for u, t in candidate}; prev_map.get(u):
\* the time of the last record with url u, None without one
PrevMapGet(candidate, u) ==
    LET at == {k \in 1..Len(candidate) : candidate[k][1] = u}
    IN  IF at = {} THEN None
        ELSE LET last == CHOOSE k \in at : \A j \in at : j <= k
             IN  Rat(candidate[last][2], 1)

PrevMapGetFirst(candidate, u) ==
    LET at == {k \in 1..Len(candidate) : candidate[k][1] = u}
    IN  IF at = {} THEN None
        ELSE LET first == CHOOSE k \in at : \A j \in at : k <= j
             IN  Rat(candidate[first][2], 1)

\* ((a - b) / b) * 100.0 if b != 0 else None
PercentChange(a, b) ==
    IF b.n = 0 THEN None ELSE RScale(RDiv(RSub(a, b), b), 100)

\* both flags taken from the IQR result
InternalOutlierOneMethod(urls, times, i, iqrIdx, zIdx) ==
    [url |-> urls[i + 1], time |-> times[i + 1], reason |-> "internal_outlier",
     iqr |-> InList(i, iqrIdx), zscore |-> InList(i, iqrIdx)]

\* Lines 165-172
InternalOutlier(urls, times, i, iqrIdx, zIdx) ==
    [url |-> urls[i + 1], time |-> times[i + 1], reason |-> "internal_outlier",
     iqr |-> InList(i, iqrIdx), zscore |-> InList(i, zIdx)]

RunThreshold == 20
PageThreshold == 30

RunAlertAtLeast(percent_change) ==
    ~percent_change.none /\ RAtLeast(RAbs(percent_change), RunThreshold)

\* percent_change is not None and abs(percent_change) > 20
RunAlert(percent_change) ==
    ~percent_change.none /\ RGreater(RAbs(percent_change), RunThreshold)

PageFlaggedStrictly(pct) == ~pct.none /\ RGreater(RAbs(pct), PageThreshold)

\* pct is not None and abs(pct) >= 30
PageFlagged(pct) == ~pct.none /\ RAtLeast(RAbs(pct), PageThreshold)

\* Lines 199-209: one record per latest (u, t) whose url the baseline holds
\* and whose change is flagged, in latest-run order
RECURSIVE PercentIncreases(_, _)
PercentIncreases(latest_metrics, candidate) ==
    IF latest_metrics = <<>> THEN <<>>
    ELSE LET u == Head(latest_metrics)[1]
             t == Head(latest_metrics)[2]
             prev_t == PrevMapGet(candidate, u)
             pct == IF prev_t.none THEN None ELSE PercentChange(Rat(t, 1), prev_t)
         IN  (IF ~prev_t.none /\ PageFlagged(pct)
              THEN <<[url |-> u, time |-> t, reason |-> "percent_increase", pct |-> pct]>>
              ELSE <<>>)
                 \o PercentIncreases(Tail(latest_metrics), candidate)

\* detect_performance_anomalies(latest_folder, folders_sorted):
\* [raised, per_page, run_level]
detect_performance_anomalies(latest_folder, folders_sorted) ==
    LET loaded == load_crawl_metrics(latest_folder)
        latest_metrics == loaded.metrics
        urls == [i \in 1..Len(latest_metrics) |-> latest_metrics[i][1]]
        times == Times(latest_metrics)
        iqrIdx == iqr_outliers(times)
        zIdx == zscore_outliers(times, 5, 2)
        outlier_indices == AscSeq(ListSet(iqrIdx) \cup ListSet(zIdx))
        outliers == [k \in 1..Len(outlier_indices) |->
                        InternalOutlier(urls, times, outlier_indices[k], iqrIdx, zIdx)]
        base == FindBaseline(SubSeq(folders_sorted, 1, Len(folders_sorted) - 1))
        prev_avg == Mean(Times(base.metrics))
        latest_avg == Mean(times)
        percent_change == PercentChange(latest_avg, prev_avg)
    IN  IF loaded.raised
        THEN [raised |-> TRUE, per_page |-> <<>>, run_level |-> <<>>]
        ELSE IF latest_metrics = <<>>
        THEN [raised |-> FALSE, per_page |-> <<>>, run_level |-> <<>>]
        ELSE IF base.raised
        THEN [raised |-> TRUE, per_page |-> <<>>, run_level |-> <<>>]
        ELSE IF ~base.found
        THEN [raised |-> FALSE, per_page |-> outliers, run_level |-> <<>>]
        ELSE [raised |-> FALSE,
              per_page |-> outliers \o PercentIncreases(latest_metrics, base.metrics),
              run_level |-> <<[previous_run |-> base.folder,
                               previous_avg |-> prev_avg,
                               latest_avg |-> latest_avg,
                               percent_change |-> percent_change,
                               alert |-> RunAlert(percent_change)]>>]

(***************************************************************************)
(* VisualAnomalyAnalyzer                                                   *)
(***************************************************************************)
\* load_visual_diffs(): the parsed array, [] when absent or unparseable
load_visual_diffs == IF visual.state = "ok" THEN visual.data ELSE <<>>

\* float(v.get("diffPercent", 0)) succeeds
DiffReadable(v) == v.rec /\ v.diffPercent.k \in {"num", "numtext", "missing"}
\* float(v.get("diffPercent", 0)), where it succeeds
DiffValue(v) == v.diffPercent.v

VisualFloor == 1

\* the comparison against the threshold made strict
AtLeastThresholdStrictly(dp, diffs) ==
    LET n == Len(diffs)
        S == SumSeq(diffs)
        V == IF n > 1 THEN PVarianceN2(diffs) ELSE 0
        d == n * dp - S
    IN  dp > VisualFloor /\ d >= 0 /\ d * d > 4 * V

\* dp >= max(1.0, mean + 2 * stdev) over diffs, stdev the population one
\* (0 for a single value): with n = len(diffs), S = sum, V = n^2 variance,
\* dp >= mean + 2 stdev  iff  n dp - S >= 0  and  (n dp - S)^2 >= 4 V
AtLeastThreshold(dp, diffs) ==
    LET n == Len(diffs)
        S == SumSeq(diffs)
        V == IF n > 1 THEN PVarianceN2(diffs) ELSE 0
        d == n * dp - S
    IN  dp >= VisualFloor /\ d >= 0 /\ d * d >= 4 * V

\* detect_visual_anomalies(): [raised, anomalies]
detect_visual_anomalies ==
    LET vis == load_visual_diffs
        \* lines 224-228: an unreadable diffPercent counts as 0.0
        diffs == [i \in 1..Len(vis) |->
                     IF DiffReadable(vis[i]) THEN DiffValue(vis[i]) ELSE 0]
        flagged == AscSeq({i \in 1..Len(vis) : AtLeastThreshold(DiffValue(vis[i]), diffs)})
    IN  IF vis = <<>> THEN [raised |-> FALSE, anomalies |-> <<>>]
        \* line 233: float() outside any try block
        ELSE IF \E i \in 1..Len(vis) : ~DiffReadable(vis[i])
        THEN [raised |-> TRUE, anomalies |-> <<>>]
        ELSE [raised |-> FALSE,
              anomalies |-> [k \in 1..Len(flagged) |->
                  [url |-> vis[flagged[k]].url,
                   diffPercent |-> DiffValue(vis[flagged[k]]),
                   reason |-> "high_diff"]]]

(***************************************************************************)
(* SummaryComposer                                                         *)
(***************************************************************************)
\* f"{x:.1f}": x to the nearest tenth, as a count of tenths; a tie goes to
\* the even tenth
Round1(x) ==
    LET a == Abs(x.n) * 10
        q == a \div x.d
        r == a % x.d
        up == 2 * r > x.d \/ (2 * r = x.d /\ q % 2 = 1)
        m == IF up THEN q + 1 ELSE q
    IN  IF x.n < 0 THEN -m ELSE m

Bullet(kind, who, num) == [kind |-> kind, who |-> who, num |-> num]

\* Lines 295-301: a bullet for each comparison whose percent_change is defined
RECURSIVE RunBullets(_)
RunBullets(run_level) ==
    IF run_level = <<>> THEN <<>>
    ELSE LET r == Head(run_level)
             pct == r.percent_change
         IN  (IF pct.none THEN <<>>
              ELSE IF RGreater(RAbs(pct), RunThreshold)
              THEN <<Bullet("run_alert", r.previous_run, Round1(pct))>>
              ELSE <<Bullet("run_neutral", r.previous_run, Round1(pct))>>)
                 \o RunBullets(Tail(run_level))

ExamplesShown == 4

\* Lines 308-312
PageBullet(p) ==
    IF p.reason = "percent_increase"
    THEN Bullet("page_pct", p.url, Round1(p.pct))
    ELSE Bullet("page_outlier", p.url, p.time)

\* every anomaly rendered, not the first four
PageBulletsUncapped(per_perf) ==
    IF per_perf = <<>> THEN <<>>
    ELSE <<Bullet("page_count", "", Len(per_perf))>>
             \o [k \in 1..Len(per_perf) |-> PageBullet(per_perf[k])]

\* Lines 304-312
PageBullets(per_perf) ==
    IF per_perf = <<>> THEN <<>>
    ELSE LET shown == IF Len(per_perf) < ExamplesShown THEN Len(per_perf)
                      ELSE ExamplesShown
         IN  <<Bullet("page_count", "", Len(per_perf))>>
                 \o [k \in 1..shown |-> PageBullet(per_perf[k])]

\* Lines 315-316
VisualBullets(visual_anoms) ==
    IF visual_anoms = <<>> THEN <<>>
    ELSE <<Bullet("visual_count", "", Len(visual_anoms))>>

Recommendations ==
    <<Bullet("recommendation", "slow_pages", 1), Bullet("recommendation", "visual_diffs", 2)>>

\* the stable bullet whatever was found
LocalSummaryAlwaysStable(perf_anoms, visual_anoms) ==
    [source |-> "local",
     text |-> RunBullets(perf_anoms.run_level)
                \o PageBullets(perf_anoms.per_page)
                \o VisualBullets(visual_anoms)
                \o <<Bullet("stable", "", 0)>>
                \o <<Bullet("blank", "", 0), Bullet("heading", "Recommendations:", 0)>>
                \o Recommendations]

\* Lines 292-328: the text as its lines
LocalSummary(perf_anoms, visual_anoms) ==
    LET found == RunBullets(perf_anoms.run_level)
                     \o PageBullets(perf_anoms.per_page)
                     \o VisualBullets(visual_anoms)
        bullets == IF found = <<>> THEN <<Bullet("stable", "", 0)>> ELSE found
    IN  [source |-> "local",
         text |-> bullets
                    \o <<Bullet("blank", "", 0), Bullet("heading", "Recommendations:", 0)>>
                    \o Recommendations]

ExternalText == <<Bullet("external", "", 0)>>

\* the collaborator's text taken without the test for an empty one
generate_text_summary_unchecked_text(perf_anoms, visual_anoms) ==
    IF openai = "text" THEN [source |-> "openai", text |-> ExternalText]
    ELSE IF openai = "empty" THEN [source |-> "openai", text |-> <<>>]
    ELSE LocalSummary(perf_anoms, visual_anoms)

\* generate_text_summary: the collaborator's text when it is configured and
\* returns a non-empty one, the local summary in every other case
generate_text_summary(perf_anoms, visual_anoms) ==
    IF openai = "text"
    THEN [source |-> "openai", text |-> ExternalText]
    ELSE LocalSummary(perf_anoms, visual_anoms)

OpenaiStates == {"off", "raises", "nochoices", "empty", "text"}

(***************************************************************************)
(* Payload, snippet, report injection                                      *)
(***************************************************************************)
build_insight_payload(perf_anoms, visual_anoms, summary_text, latest_folder, now) ==
    [timestamp |-> now,
     run_folder |-> latest_folder,
     performance_anomalies |-> perf_anoms,
     visual_anomalies |-> visual_anoms,
     summary |-> summary_text]

html_snippet_from_summary(payload) ==
    [ts |-> payload.timestamp,
     source |-> payload.summary.source,
     summary |-> payload.summary.text,
     perf_count |-> Len(payload.performance_anomalies.per_page)
                      + Len(payload.performance_anomalies.run_level),
     vis_count |-> Len(payload.visual_anomalies)]

\* inject_into_report(html_snippet): [injected, report]
inject_into_report(html_snippet) ==
    IF ~report.exists THEN [injected |-> FALSE, report |-> report]
    ELSE IF report.body
    THEN [injected |-> TRUE,
          report |-> ReportFile(TRUE, Append(report.injected, html_snippet))]
    ELSE [injected |-> FALSE, report |-> report]

FileOf(content) == [exists |-> TRUE, content |-> content]

\* Lines 414-428 of main: [raised, error, latest, payload]
Analysis(found, perf, vis) ==
    LET perf_anoms == [per_page |-> perf.per_page, run_level |-> perf.run_level]
        text == generate_text_summary(perf_anoms, vis.anomalies)
    IN  [raised |-> FALSE, error |-> "", latest |-> found.latest,
         payload |-> build_insight_payload(perf_anoms, vis.anomalies, text,
                                           found.latest, clock)]

Failure(error, latest) ==
    [raised |-> TRUE, error |-> error, latest |-> latest]

\* main up to the payload: where it raises, or the payload it built
Analyze ==
    LET found == latest_results_folder
    IN  IF found.raised THEN Failure("NoRunsFound", "")
        ELSE LET perf == detect_performance_anomalies(found.latest, found.folders_sorted)
             IN  IF perf.raised THEN Failure("load_crawl_metrics", found.latest)
                 ELSE LET vis == detect_visual_anomalies
                      IN  IF vis.raised
                          THEN Failure("detect_visual_anomalies", found.latest)
                          ELSE Analysis(found, perf, vis)

\* main(auto_inject, auto_regen_pdf), given what Analyze came to
MainCall(done, auto_inject, auto_regen_pdf) ==
    IF done.raised
    THEN /\ ret' = [op |-> "main", listing |-> listing, mtime |-> mtime] @@ done
         /\ UNCHANGED outVars
    ELSE LET snip == html_snippet_from_summary(done.payload)
             inj == IF auto_inject THEN inject_into_report(snip)
                    ELSE [injected |-> FALSE, report |-> report]
         IN  /\ insights' = FileOf(done.payload)
             /\ snippet' = FileOf(snip)
             /\ report' = inj.report
             /\ pdf' = IF inj.injected /\ auto_regen_pdf /\ weasyprint
                        THEN FileOf(inj.report) ELSE pdf
             /\ ret' = [op |-> "main", listing |-> listing, mtime |-> mtime] @@ done

(***************************************************************************)
(* Folder names.  Python compares them as strings; NameOrder lists the     *)
(* names the model uses in that order.                                     *)
(***************************************************************************)
\* Folder modification times at the start lie in 1..MaxMtime; the programs
\* run at the times MaxMtime + 1, ..., MaxMtime + MaxSteps
MaxMtime == 3
MaxSteps == 1
StartTime == MaxMtime + 1
Deadline == StartTime + MaxSteps

NameOrder == <<"2025-10-01", "2025-10-02", "2025-10-03", "charts", "visual_diffs">>
Names == ListSet(NameOrder)
RunNames == {"2025-10-01", "2025-10-02", "2025-10-03"}
NameRank(f) == CHOOSE i \in 1..Len(NameOrder) : NameOrder[i] = f

\* max(crawl_folders): the greatest name as a string
MaxByName(folders) ==
    CHOOSE f \in ListSet(folders) :
        \A g \in ListSet(folders) : NameRank(g) <= NameRank(f)

\* os.makedirs(charts_dir, exist_ok=True): [listing, mtime] afterwards.  The
\* place of a reserved folder in the listing is never read (the programs
\* drop it or take the greatest name), so the new entry is put last
ChartsMade ==
    IF "charts" \in ListSet(listing)
    THEN [listing |-> listing, mtime |-> mtime]
    ELSE [listing |-> Append(listing, "charts"),
          mtime |-> [mtime EXCEPT !["charts"] = clock]]

(***************************************************************************)
(* web_recorder.py                                                         *)
(***************************************************************************)
RecorderExcluded == {"visual_diffs"}

\* Lines 32-37: json.load, DataFrame(data), the timeTaken column as float
RecorderRaises(j) ==
    \/ j.state # "ok"
    \/ \E k \in 1..Len(j.data) : ~j.data[k].rec
    \/ \A k \in 1..Len(j.data) : j.data[k].timeTaken = Null
    \/ \E k \in 1..Len(j.data) : j.data[k].timeTaken = BadText

\* Line 62: df.to_csv; the rows whose timeTaken is present, a missing url
\* written as an empty cell, which reads back as "nan"
RECURSIVE RecorderRows(_)
RecorderRows(data) ==
    IF data = <<>> THEN <<>>
    ELSE (IF Head(data).timeTaken = Null THEN <<>>
          ELSE <<CsvRow(IF Head(data).url = NoUrl THEN "nan" ELSE Head(data).url,
                        Num(Float(Head(data).timeTaken)))>>)
             \o RecorderRows(Tail(data))

RecorderCsv(j) ==
    CsvFile(\E k \in 1..Len(j.data) : j.data[k].url # NoUrl, RecorderRows(j.data))

WebRecorder ==
    LET crawl_folders == SelectRuns(listing, RecorderExcluded)
        DATE_FOLDER == MaxByName(crawl_folders)
        seen == [op |-> "web_recorder", listing |-> listing, mtime |-> mtime]
    IN  /\ pandas
        /\ clock < Deadline
        /\ clock' = clock + 1
        /\ UNCHANGED <<visual, envVars, outVars, sampleVars>>
        /\ IF crawl_folders = <<>>
           THEN /\ ret' = seen @@ [raised |-> TRUE, error |-> "NoRunsFound",
                                    latest |-> ""]
                /\ UNCHANGED <<listing, mtime, csv, summary>>
           ELSE IF RecorderRaises(summary[DATE_FOLDER])
           THEN /\ ret' = seen @@ [raised |-> TRUE, error |-> "summary.json",
                                    latest |-> DATE_FOLDER]
                /\ UNCHANGED <<listing, mtime, csv, summary>>
           ELSE   LET made == ChartsMade
                  IN  /\ listing' = made.listing
                      \* new files in the run folder change its modification time
                      /\ mtime' = IF csv[DATE_FOLDER].state = "absent"
                                   THEN [made.mtime EXCEPT ![DATE_FOLDER] = clock]
                                   ELSE made.mtime
                      /\ csv' = [csv EXCEPT ![DATE_FOLDER] = RecorderCsv(summary[DATE_FOLDER])]
                      /\ UNCHANGED summary
                      /\ ret' = seen @@ [raised |-> FALSE, error |-> "",
                                         latest |-> DATE_FOLDER]

(***************************************************************************)
(* generate_report.py                                                      *)
(***************************************************************************)
ReportExcluded == {"visual_diffs", "charts"}

\* Lines 55-56, 70-72, 81-82: summary.json is read and walked unguarded
ReportSummaryRaises(j) ==
    \/ j.state # "ok"
    \/ \E k \in 1..Len(j.data) : ~j.data[k].rec

\* Lines 88-95: the visual source is read and coerced unguarded
ReportVisualRaises ==
    \/ visual.state = "invalid"
    \/ \E k \in 1..Len(visual.data) : ~DiffReadable(visual.data[k])

GenerateReport ==
    /\ pandas /\ weasyprint
    /\ clock < Deadline
    /\ clock' = clock + 1
    /\ UNCHANGED <<csv, summary, visual, envVars, insights, snippet, sampleVars>>
    /\   LET made == ChartsMade
             folders == SelectRuns(made.listing, ReportExcluded)
             folders_sorted == SortedByKey(folders, made.mtime)
             latest_folder == folders_sorted[Len(folders_sorted)]
             seen == [op |-> "report", listing |-> made.listing, mtime |-> made.mtime]
         IN  /\ listing' = made.listing
             /\ mtime' = made.mtime
             /\ IF folders = <<>>
                THEN /\ ret' = seen @@ [raised |-> TRUE, error |-> "NoRunsFound",
                                         latest |-> ""]
                     /\ UNCHANGED <<report, pdf>>
                ELSE IF ReportSummaryRaises(summary[latest_folder]) \/ ReportVisualRaises
                THEN /\ ret' = seen @@ [raised |-> TRUE, error |-> "load",
                                         latest |-> latest_folder]
                     /\ UNCHANGED <<report, pdf>>
                ELSE /\ report' = ReportFile(TRUE, <<>>)
                     /\ pdf' = FileOf(ReportFile(TRUE, <<>>))
                     /\ ret' = seen @@ [raised |-> FALSE, error |-> "",
                                         latest |-> latest_folder]

(***************************************************************************)
(* ai_insight_engine.py run as a program                                   *)
(***************************************************************************)
Main ==
    /\ clock < Deadline
    /\ clock' = clock + 1
    /\ UNCHANGED <<fsVars, envVars, sampleVars>>
    /\ \E done \in {Analyze} :
         \E auto_inject \in BOOLEAN, auto_regen_pdf \in BOOLEAN :
            MainCall(done, auto_inject, auto_regen_pdf)

(***************************************************************************)
(* The outlier functions applied to a sample                               *)
(***************************************************************************)
MaxLen == 8
SampleValues == {0, 1, 3}

Unset == [done |-> FALSE, out |-> <<>>]
NoResult == [op |-> "none"]

NoFiles ==
    /\ listing = <<>>
    /\ mtime = [f \in Names |-> 0]
    /\ csv = [f \in Names |-> CsvAbsent]
    /\ summary = [f \in Names |-> JsonAbsent]
    /\ visual = VisualAbsent

NoOutputs ==
    /\ report = ReportAbsent
    /\ pdf = NoFile
    /\ insights = NoFile
    /\ snippet = NoFile

NoSample ==
    /\ values = <<>>
    /\ iqr_idx = Unset
    /\ z_idx = Unset

BareEnv ==
    /\ pandas = FALSE
    /\ openai = "off"
    /\ weasyprint = FALSE

InitOutliers ==
    /\ NoFiles
    /\ NoOutputs
    /\ BareEnv
    /\ clock = 1
    /\ values \in SeqsUpTo(SampleValues, MaxLen)
    /\ iqr_idx = Unset
    /\ z_idx = Unset
    /\ ret = NoResult

IqrOutliers ==
    /\ ~iqr_idx.done
    /\ iqr_idx' = [done |-> TRUE, out |-> iqr_outliers(values)]
    /\ UNCHANGED <<fsVars, envVars, outVars, clock, values, z_idx, ret>>

\* the z-score method called with the threshold 2
ZscoreOutliersThresholdTwo ==
    /\ ~z_idx.done
    /\ z_idx' = [done |-> TRUE, out |-> zscore_outliers(values, 2, 1)]
    /\ UNCHANGED <<fsVars, envVars, outVars, clock, values, iqr_idx, ret>>

\* zscore_outliers(times, threshold=2.5)
ZscoreOutliers ==
    /\ ~z_idx.done
    /\ z_idx' = [done |-> TRUE, out |-> zscore_outliers(values, 5, 2)]
    /\ UNCHANGED <<fsVars, envVars, outVars, clock, values, iqr_idx, ret>>

NextOutliers == IqrOutliers \/ ZscoreOutliers

SpecOutliers == InitOutliers /\ [][NextOutliers]_vars

(***************************************************************************)
(* Statements about the outlier functions                                  *)
(***************************************************************************)
\* floor(num * n / den), by its defining inequalities
FloorOf(num, n, den) ==
    CHOOSE m \in 0..(num * n) : den * m <= num * n /\ num * n < den * (m + 1)

\* The element at 0-based position k of the sample in ascending order, by
\* counting: fewer than k+1 elements are below it, at least k+1 are at or below
OrderStatistic(vals0, k) ==
    CHOOSE x \in {vals0[i] : i \in 1..Len(vals0)} :
        /\ Cardinality({i \in 1..Len(vals0) : vals0[i] < x}) <= k
        /\ Cardinality({i \in 1..Len(vals0) : vals0[i] <= x}) > k

StrictlyAscending(xs) == \A k \in 1..(Len(xs) - 1) : xs[k] < xs[k + 1]

ValuesQ1 == OrderStatistic(values, FloorOf(1, Len(values), 4))
ValuesQ3 == OrderStatistic(values, FloorOf(3, Len(values), 4))

IqrAboveFence ==
    {i \in 0..(Len(values) - 1) :
        2 * values[i + 1] > 2 * ValuesQ3 + 3 * (ValuesQ3 - ValuesQ1)}

\* C5 as stated: for every sample of size n >= 1, iqr_outliers returns
\* exactly the original-order indices i with value[i] > q3 + 1.5 (q3 - q1),
\* q1 and q3 the elements of the sorted sample at floor(0.25 n) and
\* floor(0.75 n); it returns nothing when q3 = q1; it never flags an index
\* whose value is at or below q3.
C5_AsStated ==
    (iqr_idx.done /\ Len(values) >= 1) =>
        /\ StrictlyAscending(iqr_idx.out)
        /\ ListSet(iqr_idx.out) = IqrAboveFence
        /\ (ValuesQ3 = ValuesQ1 => iqr_idx.out = <<>>)
        /\ \A i \in ListSet(iqr_idx.out) : values[i + 1] > ValuesQ3

\* C5 amended: for a sample of size n >= 1 with q3 # q1, iqr_outliers
\* returns exactly the original-order indices i with
\* value[i] > q3 + 1.5 (q3 - q1); with q3 = q1 it returns nothing, also when
\* some value lies above q3; it never flags a value at or below q3.
C5_IqrExact ==
    (iqr_idx.done /\ Len(values) >= 1) =>
        /\ StrictlyAscending(iqr_idx.out)
        /\ (ValuesQ3 # ValuesQ1 => ListSet(iqr_idx.out) = IqrAboveFence)
        /\ (ValuesQ3 = ValuesQ1 => iqr_idx.out = <<>>)
        /\ \A i \in ListSet(iqr_idx.out) : values[i + 1] > ValuesQ3

\* an upper-tail value is flagged in a sample that also holds values at
\* or below q3
C5_Witness ==
    /\ iqr_idx.done
    /\ iqr_idx.out # <<>>
    /\ ValuesQ3 # ValuesQ1
    /\ \E i \in 0..(Len(values) - 1) : i \notin ListSet(iqr_idx.out)

\* sum over the sample of (n v - S)^2, which is n^3 times the population variance
DeviationSquares(vals0) ==
    LET n == Len(vals0)
        S == SumSeq(vals0)
        dev == [i \in 1..n |-> (n * vals0[i] - S) * (n * vals0[i] - S)]
    IN  SumSeq(dev)

\* |value[i] - mean| / stdev >= 2.5 with population mean and stdev:
\* 4 n (n v - S)^2 >= 25 * sum_j (n v_j - S)^2
ZAtLeastThreshold(vals0, i) ==
    LET n == Len(vals0)
        S == SumSeq(vals0)
        d == n * vals0[i + 1] - S
    IN  4 * n * d * d >= 25 * DeviationSquares(vals0)

\* C6: zscore_outliers returns nothing for a sample of size < 2 or of
\* population standard deviation 0; otherwise exactly the indices i with
\* |value[i] - mean| / stdev >= 2.5 (population mean and stdev, 2.5 included).
C6_ZscoreExact ==
    z_idx.done =>
        IF Len(values) < 2 \/ DeviationSquares(values) = 0
        THEN z_idx.out = <<>>
        ELSE /\ StrictlyAscending(z_idx.out)
             /\ ListSet(z_idx.out) =
                    {i \in 0..(Len(values) - 1) : ZAtLeastThreshold(values, i)}

\* an index whose z-score is exactly 2.5 is flagged
C6_Witness ==
    /\ z_idx.done
    /\ \E i \in ListSet(z_idx.out) :
          LET n == Len(values)
              d == n * values[i + 1] - SumSeq(values)
          IN  4 * n * d * d = 25 * DeviationSquares(values)

\* C19 as stated: zscore_outliers returns nothing for every sample of at
\* most 8 values.
C19_AsStated ==
    (z_idx.done /\ Len(values) <= 8) => z_idx.out = <<>>

\* C19: zscore_outliers returns nothing for every sample of at most 7
\* values, whatever the values are: the largest population z-score of a
\* sample of size n is sqrt(n - 1), which is below 2.5 up to n = 7.
C19_QuietUpToSeven ==
    (z_idx.done /\ Len(values) <= 7) => z_idx.out = <<>>

\* seven values, one of them apart from six equal ones: the largest
\* z-score a sample of seven can have, and nothing is flagged
C19_Witness ==
    /\ z_idx.done
    /\ Len(values) = 7
    /\ z_idx.out = <<>>
    /\ \E i \in 1..7 :
          /\ values[i] = 3
          /\ \A j \in 1..7 : j # i => values[j] = 0

(***************************************************************************)
(* load_crawl_metrics applied to one run folder                            *)
(***************************************************************************)
MaxRows == 2
MaxRecords == 2
Urls == {"/a", "/b"}
LoadCells == {Num(1), NumText(2), BadText}

CsvFiles ==
    {CsvAbsent, CsvInvalid}
        \cup {CsvFile(FALSE, <<>>)}
        \cup {CsvFile(TRUE, rows) :
                 rows \in SeqsUpTo({CsvRow(u, c) : u \in Urls, c \in LoadCells}, MaxRows)}

JsonEntries ==
    {NonRecord}
        \cup {JsonRecord(u, c) : u \in Urls \cup {NoUrl}, c \in LoadCells \cup {Null}}

JsonFiles ==
    {JsonAbsent, JsonInvalid}
        \cup {JsonFile(data) : data \in SeqsUpTo(JsonEntries, MaxRecords)}

OneRun == "2025-10-01"

InitLoad ==
    /\ listing = <<OneRun>>
    /\ mtime = [f \in Names |-> IF f = OneRun THEN 1 ELSE 0]
    /\ \E c \in CsvFiles : csv = [f \in Names |-> IF f = OneRun THEN c ELSE CsvAbsent]
    /\ \E j \in JsonFiles :
          summary = [f \in Names |-> IF f = OneRun THEN j ELSE JsonAbsent]
    /\ visual = VisualAbsent
    /\ pandas \in BOOLEAN
    /\ openai = "off"
    /\ weasyprint = FALSE
    /\ NoOutputs
    /\ NoSample
    /\ clock = 1
    /\ ret = NoResult

LoadCrawlMetrics ==
    /\ ret.op = "none"
    /\ \E f \in ListSet(listing) :
          LET r == load_crawl_metrics(f)
          IN  ret' = [op |-> "load", folder |-> f,
                      raised |-> r.raised, metrics |-> r.metrics]
    /\ UNCHANGED <<fsVars, envVars, outVars, sampleVars, clock>>

NextLoad == LoadCrawlMetrics

SpecLoad == InitLoad /\ [][NextLoad]_vars

(***************************************************************************)
(* Statements about load_crawl_metrics                                     *)
(***************************************************************************)
\* The tabular source gives nothing usable: the reader is missing, the file
\* is absent or unreadable, lacks the url/timeTaken columns, or holds a row
\* whose timeTaken float() rejects
TabularFails(c, pd) ==
    \/ ~pd
    \/ c.state # "ok"
    \/ ~c.cols
    \/ \E k \in 1..Len(c.rows) : c.rows[k].timeTaken.k \notin {"num", "numtext"}

\* The JSON fallback gives nothing usable: absent, unparseable, or holding
\* an entry that is not a record
JsonUnusable(j) ==
    \/ j.state # "ok"
    \/ \E k \in 1..Len(j.data) : ~j.data[k].rec

\* The fallback's records that have url and timeTaken, timeTaken a number
\* or a numeric text, as (url, time) pairs in file order
JsonSurvivors(j) ==
    LET keep == {k \in 1..Len(j.data) :
                    /\ j.data[k].rec
                    /\ j.data[k].url # NoUrl
                    /\ j.data[k].timeTaken.k \in {"num", "numtext"}}
        at == AscSeq(keep)
    IN  [i \in 1..Len(at) |->
            <<j.data[at[i]].url, j.data[at[i]].timeTaken.v>>]

\* C1: load_crawl_metrics never raises; with the tabular source absent or
\* invalid and the JSON fallback absent, unparseable or holding non-record
\* entries it returns the empty sequence.
C1_NeverRaises ==
    ret.op = "load" =>
        /\ ~ret.raised
        /\ (TabularFails(csv[ret.folder], pandas) /\ JsonUnusable(summary[ret.folder])
               => ret.metrics = <<>>)

\* C2: whenever the tabular source does not succeed, the returned sequence is
\* exactly the JSON fallback's surviving records in file order; no row of the
\* failed tabular source appears in it.
C2_FallbackIsExactlyJson ==
    (ret.op = "load" /\ ~ret.raised /\ TabularFails(csv[ret.folder], pandas)) =>
        ret.metrics = JsonSurvivors(summary[ret.folder])

(***************************************************************************)
(* The three programs run over a results directory                         *)
(***************************************************************************)
\* The members of a set of names in string order
ByRank(S) == LET idx == AscSeq({NameRank(f) : f \in S})
             IN  [i \in 1..Len(idx) |-> NameOrder[idx[i]]]
Reversed(xs) == [i \in 1..Len(xs) |-> xs[Len(xs) + 1 - i]]

\* The run folders in ascending or in descending name order, then the
\* reserved folders
Listings ==
    {runs \o ByRank(R) :
        runs \in {ByRank(S) : S \in SUBSET RunNames}
                    \cup {Reversed(ByRank(S)) : S \in SUBSET RunNames},
        R \in SUBSET (Names \ RunNames)}

OneRecord == JsonFile(<<JsonRecord("/a", Num(100))>>)
SmallSummaries == {JsonAbsent, JsonInvalid, OneRecord}

Init ==
    /\ listing \in Listings
    /\ mtime \in [Names -> 0..MaxMtime]
    /\ \A f \in Names :
          IF f \notin ListSet(listing) THEN mtime[f] = 0
          ELSE IF f \in RunNames THEN mtime[f] >= 1
          ELSE mtime[f] = MaxMtime
    /\ csv = [f \in Names |-> CsvAbsent]
    /\ summary \in [Names -> SmallSummaries]
    /\ \A f \in Names :
          (f \notin ListSet(listing) \/ f \notin RunNames) => summary[f] = JsonAbsent
    /\ visual = VisualAbsent
    /\ pandas = TRUE
    /\ openai = "off"
    /\ weasyprint = TRUE
    /\ report = ReportFile(TRUE, <<>>)
    /\ pdf = NoFile
    /\ insights = NoFile
    /\ snippet = NoFile
    /\ NoSample
    /\ clock = StartTime
    /\ ret = NoResult

Next == Main \/ WebRecorder \/ GenerateReport

Spec == Init /\ [][Next]_vars

(***************************************************************************)
(* The engine run on a latest run and one prior run                        *)
(***************************************************************************)
MaxPages == 2
PadCounts == {0, 2}
PerfUrls == {"/a", "/b"}
LatestTimes == {0, 120, 121, 130}
PriorTimes == {0, 100}
PriorRun == "2025-10-01"
LatestRun == "2025-10-02"

\* k blocks of four steady pages
RECURSIVE Pad(_)
Pad(k) ==
    IF k = 0 THEN <<>>
    ELSE <<JsonRecord("/a", Num(120)), JsonRecord("/b", Num(121)),
           JsonRecord("/a", Num(120)), JsonRecord("/b", Num(121))>> \o Pad(k - 1)

LatestSummaries ==
    {JsonFile(Pad(k) \o tl) :
        k \in PadCounts,
        tl \in SeqsUpTo({JsonRecord(u, Num(t)) : u \in PerfUrls, t \in LatestTimes},
                        MaxPages)}

\* no data, or up to two records (two may repeat a url)
PriorSummaries ==
    {JsonAbsent}
        \cup {JsonFile(data) :
                 data \in SeqsUpTo({JsonRecord(u, Num(t)) : u \in PerfUrls, t \in PriorTimes},
                                   2)}

InitPerf ==
    /\ listing = <<LatestRun, PriorRun, "visual_diffs">>
    /\ mtime = [f \in Names |->
                  IF f = PriorRun THEN 1 ELSE IF f = "charts" THEN 0 ELSE MaxMtime]
    /\ csv = [f \in Names |-> CsvAbsent]
    /\ \E l \in LatestSummaries, pr \in PriorSummaries :
          summary = [f \in Names |->
                        IF f = LatestRun THEN l ELSE IF f = PriorRun THEN pr
                        ELSE JsonAbsent]
    /\ visual = VisualAbsent
    /\ pandas = FALSE
    /\ openai = "off"
    /\ weasyprint = FALSE
    /\ report = ReportAbsent
    /\ pdf = NoFile
    /\ insights = NoFile
    /\ snippet = NoFile
    /\ NoSample
    /\ clock = StartTime
    /\ ret = NoResult

NextPerf == Main

SpecPerf == InitPerf /\ [][NextPerf]_vars

(***************************************************************************)
(* Statements about run discovery and the analysis                         *)
(***************************************************************************)
Reserved == {"visual_diffs", "charts"}

\* The run folders of a listing: what is left without the reserved names
Candidates(names) == {f \in ListSet(names) : f \notin Reserved}

\* The PageMetrics of a run as the spec defines them: the tabular rows when
\* that source is usable, else the surviving fallback records, else nothing
PageMetricsOf(f) ==
    IF ~TabularFails(csv[f], pandas)
    THEN [i \in 1..Len(csv[f].rows) |->
             <<csv[f].rows[i].url, csv[f].rows[i].timeTaken.v>>]
    ELSE IF JsonUnusable(summary[f]) THEN <<>>
    ELSE JsonSurvivors(summary[f])

\* C3: every routine that discovers runs drops the reserved folders and
\* takes as latest a folder of greatest modification time among the rest,
\* whatever the folder names are.
C3_LatestByMtime ==
    (ret.op \in {"main", "web_recorder", "report"} /\ ret.latest # "") =>
        /\ ret.latest \in Candidates(ret.listing)
        /\ \A g \in Candidates(ret.listing) : ret.mtime[g] <= ret.mtime[ret.latest]

\* C4: with no candidate run left after the reserved folders are excluded,
\* main fails with NoRunsFound and has produced nothing: no payload, no
\* insights JSON, no snippet, no report injection, no PDF.
C4_NoRunsFound ==
    [][(ret'.op = "main" /\ Candidates(listing) = {}) =>
          /\ ret'.raised
          /\ ret'.error = "NoRunsFound"
          /\ "payload" \notin DOMAIN ret'
          /\ UNCHANGED outVars]_vars

\* main found only reserved folders, with a report at hand to inject into
C4_Witness ==
    /\ ret.op = "main"
    /\ ret.raised
    /\ ret.error = "NoRunsFound"
    /\ ListSet(listing) = Reserved
    /\ report.exists /\ report.body

\* what main returned as run-level comparisons; nothing when it raised
RunLevelEmitted ==
    IF ret.raised THEN <<>> ELSE ret.payload.performance_anomalies.run_level

PerPageEmitted ==
    IF ret.raised THEN <<>> ELSE ret.payload.performance_anomalies.per_page

PriorsWithData == {f \in Candidates(ret.listing) \ {ret.latest} : PageMetricsOf(f) # <<>>}

\* C7: a RunLevelComparison is emitted iff the latest run has a PageMetric
\* and some prior run has a non-empty PageMetrics sequence; then exactly one,
\* against a prior run of greatest modification time among those with data.
C7_RunLevelIffData ==
    (ret.op = "main" /\ ret.latest # "") =>
        /\ Len(RunLevelEmitted) <= 1
        /\ Len(RunLevelEmitted) = 1
              <=> (PageMetricsOf(ret.latest) # <<>> /\ PriorsWithData # {})
        /\ Len(RunLevelEmitted) = 1 =>
              /\ RunLevelEmitted[1].previous_run \in PriorsWithData
              /\ \A g \in PriorsWithData :
                    ret.mtime[g] <= ret.mtime[RunLevelEmitted[1].previous_run]
        /\ Len(RunLevelEmitted) = 0 =>
              \A k \in 1..Len(PerPageEmitted) :
                  PerPageEmitted[k].reason # "percent_increase"

\* C7 on catalogs in which no summary.json is malformed
C7_OnWellFormedSources ==
    (\A f \in Names : ~(summary[f].state = "invalid")) => C7_RunLevelIffData

(***************************************************************************)
(* Statements about the performance analysis                               *)
(***************************************************************************)
\* main returned a result holding a run-level comparison
Compared == ret.op = "main" /\ ~ret.raised /\ Len(RunLevelEmitted) = 1

LatestPages == PageMetricsOf(ret.latest)
BaselinePages == PageMetricsOf(RunLevelEmitted[1].previous_run)
LatestSum == SumSeq(Times(LatestPages))
BaselineSum == SumSeq(Times(BaselinePages))

\* (latestAvg - previousAvg) / previousAvg as the fraction ChangeNum / ChangeDen,
\* both averages written out as sum / count (elapsed times are non-negative)
ChangeNum == LatestSum * Len(BaselinePages) - BaselineSum * Len(LatestPages)
ChangeDen == BaselineSum * Len(LatestPages)

\* C8: in the emitted RunLevelComparison both averages are the arithmetic
\* means of the runs' times, percentChange is (latestAvg - previousAvg) /
\* previousAvg * 100 and null exactly when previousAvg = 0, and alertFlag
\* holds iff percentChange is defined and |percentChange| > 20 strictly.
C8_RunLevelArithmetic ==
    Compared =>
        LET r == RunLevelEmitted[1]
        IN  /\ ~r.latest_avg.none /\ ~r.previous_avg.none
            /\ r.latest_avg.n * Len(LatestPages) = LatestSum * r.latest_avg.d
            /\ r.previous_avg.n * Len(BaselinePages) = BaselineSum * r.previous_avg.d
            /\ r.percent_change.none <=> BaselineSum = 0
            /\ ~r.percent_change.none =>
                  r.percent_change.n * ChangeDen = r.percent_change.d * 100 * ChangeNum
            /\ r.alert <=> (BaselineSum # 0 /\ 100 * Abs(ChangeNum) > 20 * ChangeDen)

\* a comparison of exactly 20 percent, which does not alert
C8_Witness ==
    /\ Compared
    /\ 100 * ChangeNum = 20 * ChangeDen
    /\ BaselineSum # 0
    /\ ~RunLevelEmitted[1].alert
    /\ RunLevelEmitted[1].percent_change = Rat(20, 1)

PercentRecords == SelectSeq(PerPageEmitted, LAMBDA a : a.reason = "percent_increase")
OutlierRecords == SelectSeq(PerPageEmitted, LAMBDA a : a.reason = "internal_outlier")

\* positions of the baseline records with url u, and the time of the last one
BaselineAt(u) == {k \in 1..Len(BaselinePages) : BaselinePages[k][1] = u}
PrevTime(u) == BaselinePages[CHOOSE k \in BaselineAt(u) : \A j \in BaselineAt(u) : j <= k][2]

\* positions of the latest records that the 30 percent rule selects
ChangedPages ==
    {i \in 1..Len(LatestPages) :
        /\ BaselineAt(LatestPages[i][1]) # {}
        /\ PrevTime(LatestPages[i][1]) # 0
        /\ 100 * Abs(LatestPages[i][2] - PrevTime(LatestPages[i][1]))
              >= 30 * Abs(PrevTime(LatestPages[i][1]))}

\* C9: with a baseline, a PercentIncrease anomaly is emitted for a latest
\* record (url, time) iff the baseline holds the url, the time of the last
\* baseline record with that url is non-zero and the change against it is
\* at least 30 percent in absolute value; each latest record is evaluated on
\* its own, and the anomaly carries the latest time and the computed pct.
C9_PercentIncreaseExact ==
    Compared =>
        LET at == AscSeq(ChangedPages)
        IN  /\ Len(PercentRecords) = Len(at)
            /\ \A k \in 1..Len(at) :
                  LET u == LatestPages[at[k]][1]
                      t == LatestPages[at[k]][2]
                      a == PercentRecords[k]
                  IN  /\ a.url = u
                      /\ a.time = t
                      /\ ~a.pct.none
                      /\ a.pct.n * PrevTime(u) = a.pct.d * 100 * (t - PrevTime(u))

\* a change of exactly 30 percent is reported, against the last of two
\* baseline records of the url that disagree, and a repeated url is
\* reported once per record
C9_Witness ==
    /\ Compared
    /\ \E k \in 1..Len(PercentRecords) : PercentRecords[k].pct = Rat(30, 1)
    /\ \E u \in PerfUrls :
          /\ Cardinality(BaselineAt(u)) = 2
          /\ \E j \in BaselineAt(u) : BaselinePages[j][2] # PrevTime(u)
          /\ \E i \in ChangedPages : LatestPages[i][1] = u
    /\ \E i, j \in ChangedPages : i # j /\ LatestPages[i][1] = LatestPages[j][1]
    /\ \E i \in 1..Len(LatestPages) : i \notin ChangedPages

\* sample positions (from 0) that either method flags in the latest run
IqrFlagged == ListSet(iqr_outliers(Times(LatestPages)))
ZFlagged == ListSet(zscore_outliers(Times(LatestPages), 5, 2))

\* C10: the per-page collection is first one InternalOutlier record per
\* sample index flagged by either method, in ascending index order, each
\* with its iqr and zscore flags equal to the index's membership in each
\* method's result, then all PercentIncrease records in latest-run order;
\* records of the two kinds are never merged.
C10_PerPageShape ==
    (ret.op = "main" /\ ~ret.raised) =>
        LET at == AscSeq(IqrFlagged \cup ZFlagged)
        IN  /\ PerPageEmitted = OutlierRecords \o PercentRecords
            /\ Len(OutlierRecords) = Len(at)
            /\ \A k \in 1..Len(at) :
                  LET a == OutlierRecords[k]
                  IN  /\ a.url = LatestPages[at[k] + 1][1]
                      /\ a.time = LatestPages[at[k] + 1][2]
                      /\ a.iqr <=> at[k] \in IqrFlagged
                      /\ a.zscore <=> at[k] \in ZFlagged
                      /\ a.iqr \/ a.zscore
                      /\ DOMAIN a = {"url", "time", "reason", "iqr", "zscore"}
            /\ \A k \in 1..Len(PercentRecords) :
                  DOMAIN PercentRecords[k] = {"url", "time", "reason", "pct"}
            /\ Len(RunLevelEmitted) = 0 => PercentRecords = <<>>

\* a page flagged by both methods that is also a percent increase: one
\* record of each kind for the same url and time
C10_Witness ==
    /\ ret.op = "main" /\ ~ret.raised
    /\ \E k \in 1..Len(OutlierRecords), j \in 1..Len(PercentRecords) :
          /\ OutlierRecords[k].iqr /\ OutlierRecords[k].zscore
          /\ OutlierRecords[k].url = PercentRecords[j].url
          /\ OutlierRecords[k].time = PercentRecords[j].time

(***************************************************************************)
(* The visual analysis on its own: one visual_diff_summary.json, read once *)
(***************************************************************************)
MaxDiffs == 3
ZeroPads == {0, 2}
DiffCells == {Num(0), Num(1), NumText(5), BadText, Missing}

\* a record names its page under "url" or under "page"
DiffEntries ==
    {VisualRecord("/a", NoUrl, c) : c \in DiffCells}
        \cup {VisualRecord(NoUrl, "/p", c) : c \in DiffCells}
        \cup {VisualNonRecord}

\* k unchanged pages
ZeroDiffs(k) == [i \in 1..k |-> VisualRecord("/a", NoUrl, Num(0))]

VisualFiles ==
    {VisualAbsent, VisualInvalid}
        \cup {VisualFile(ZeroDiffs(k) \o tl) :
                 k \in ZeroPads, tl \in SeqsUpTo(DiffEntries, MaxDiffs)}

InitVisual ==
    /\ listing = <<"visual_diffs">>
    /\ mtime = [f \in Names |-> IF f = "visual_diffs" THEN MaxMtime ELSE 0]
    /\ csv = [f \in Names |-> CsvAbsent]
    /\ summary = [f \in Names |-> JsonAbsent]
    /\ visual \in VisualFiles
    /\ BareEnv
    /\ NoOutputs
    /\ NoSample
    /\ clock = StartTime
    /\ ret = NoResult

\* detect_visual_anomalies() called once
DetectVisualAnomalies ==
    /\ ret.op = "none"
    /\ ret' = [op |-> "visual"] @@ detect_visual_anomalies
    /\ UNCHANGED <<fsVars, envVars, outVars, sampleVars, clock>>

NextVisual == DetectVisualAnomalies

SpecVisual == InitVisual /\ [][NextVisual]_vars

(***************************************************************************)
(* Statements about the visual analysis                                    *)
(***************************************************************************)
\* the records of the resource; none when it is absent or unparseable
DiffRecords == IF visual.state = "ok" THEN visual.data ELSE <<>>

\* the record's diffPercent is a number (0 when the record has none)
HasNumber(v) == v.rec /\ v.diffPercent.k \in {"num", "numtext", "missing"}

\* the diffPercent a record counts with: its number, 0 when it has none
CountedDiffs ==
    [i \in 1..Len(DiffRecords) |->
        IF HasNumber(DiffRecords[i]) THEN DiffRecords[i].diffPercent.v ELSE 0]

\* x >= max(1, mean + 2 * stdev) of xs, stdev the population one, on
\* cross products: n x - S >= 2 sqrt(n * sum of squares - S^2)
MeetsThreshold(x, xs) ==
    LET n == Len(xs)
        S == SumSeq(xs)
        Q == SumSeq([i \in 1..n |-> xs[i] * xs[i]])
    IN  x >= 1 /\ n * x - S >= 0 /\ (n * x - S) * (n * x - S) >= 4 * (n * Q - S * S)

HighDiffs == AscSeq({i \in 1..Len(DiffRecords) : MeetsThreshold(CountedDiffs[i], CountedDiffs)})

\* what was returned is the records at HighDiffs, in input order
ReturnsHighDiffs ==
    /\ ~ret.raised
    /\ Len(ret.anomalies) = Len(HighDiffs)
    /\ \A k \in 1..Len(HighDiffs) :
          /\ ret.anomalies[k].diffPercent = CountedDiffs[HighDiffs[k]]
          /\ ret.anomalies[k].reason = "high_diff"

\* C11: on records whose diffPercent is a number detect_visual_anomalies
\* returns, in input order, exactly the records with diffPercent >=
\* max(1.0, mean + 2 * population stdev); nothing for an empty collection
\* and nothing when every diffPercent is 0; a record at the threshold is
\* flagged.
C11_VisualThreshold ==
    (ret.op = "visual" /\ \A i \in 1..Len(DiffRecords) : HasNumber(DiffRecords[i])) =>
        /\ ReturnsHighDiffs
        /\ DiffRecords = <<>> => ret.anomalies = <<>>
        /\ (\A i \in 1..Len(CountedDiffs) : CountedDiffs[i] = 0) => ret.anomalies = <<>>

\* five numeric records, one of them exactly at a threshold above the floor
\* and returned, the others not
C11_Witness ==
    /\ ret.op = "visual"
    /\ \A i \in 1..Len(DiffRecords) : HasNumber(DiffRecords[i])
    /\ Len(DiffRecords) = 5
    /\ Len(ret.anomalies) = 1
    /\ LET x == ret.anomalies[1].diffPercent
           n == Len(CountedDiffs)
           S == SumSeq(CountedDiffs)
           Q == SumSeq([i \in 1..n |-> CountedDiffs[i] * CountedDiffs[i]])
       IN  x > 1 /\ (n * x - S) * (n * x - S) = 4 * (n * Q - S * S)

\* C12: a record whose diffPercent is no number, or an entry that is no
\* record, never makes the visual analysis raise: it counts as 0 for the
\* threshold and for the comparison, every other record is still
\* evaluated; an absent or unparseable resource gives the empty sequence.
C12_UnreadableCountsAsZero ==
    ret.op = "visual" =>
        /\ ReturnsHighDiffs
        /\ visual.state # "ok" => ret.anomalies = <<>>

\* the page identifier of a visual-diff record
Identifier(v) == IF v.url # NoUrl THEN v.url ELSE v.page

\* C18: every VisualAnomaly carries the identifier of the flagged record,
\* whether the record names its page under url or under page, and the
\* record's diffPercent; the identifier is never missing.
C18_AnomalyCarriesIdentifier ==
    (ret.op = "visual" /\ ~ret.raised) =>
        /\ Len(ret.anomalies) = Len(HighDiffs)
        /\ \A k \in 1..Len(HighDiffs) :
              /\ ret.anomalies[k].diffPercent = CountedDiffs[HighDiffs[k]]
              /\ ret.anomalies[k].url = Identifier(DiffRecords[HighDiffs[k]])
              /\ ret.anomalies[k].url # NoUrl

\* C18 on records that name their page under url
C18_OnUrlRecords ==
    (\A i \in 1..Len(DiffRecords) : DiffRecords[i].url # NoUrl)
        => C18_AnomalyCarriesIdentifier

(***************************************************************************)
(* The summary composer on its own: generate_text_summary on given         *)
(* findings, with the text-generation collaborator in each of its states   *)
(***************************************************************************)
MaxAnomalies == 5
MaxVisual == 2

\* a run_level record as detect_performance_anomalies builds it
Comparison(prev, latest) ==
    LET pc == PercentChange(Rat(latest, 1), Rat(prev, 1))
    IN  [previous_run |-> PriorRun,
         previous_avg |-> Rat(prev, 1),
         latest_avg |-> Rat(latest, 1),
         percent_change |-> pc,
         alert |-> RunAlert(pc)]

\* no comparison, or one: unchanged, 20 and 21 percent up, 100 percent
\* down, and against a previous average of 0
RunLevels ==
    {<<>>} \cup {<<Comparison(pl[1], pl[2])>> :
                    pl \in {<<100, 100>>, <<100, 120>>, <<100, 121>>, <<100, 0>>, <<0, 120>>}}

OutlierFindings ==
    {[url |-> "/a", time |-> 130, reason |-> "internal_outlier", iqr |-> TRUE, zscore |-> FALSE],
     [url |-> "/b", time |-> 0, reason |-> "internal_outlier", iqr |-> FALSE, zscore |-> TRUE]}

PercentFindings ==
    {[url |-> "/a", time |-> 130, reason |-> "percent_increase",
      pct |-> PercentChange(Rat(130, 1), Rat(100, 1))],
     [url |-> "/b", time |-> 100, reason |-> "percent_increase",
      pct |-> PercentChange(Rat(100, 1), Rat(30, 1))]}

\* per_page as detect_performance_anomalies returns it: outliers, then
\* percent increases
PerPages ==
    {o \o pc : o \in SeqsUpTo(OutlierFindings, MaxAnomalies),
               pc \in SeqsUpTo(PercentFindings, MaxAnomalies)}
        \cap SeqsUpTo(OutlierFindings \cup PercentFindings, MaxAnomalies)

VisualFindings ==
    SeqsUpTo({[url |-> "/a", diffPercent |-> 5, reason |-> "high_diff"]}, MaxVisual)

InitSummary ==
    /\ listing = <<>>
    /\ mtime = [f \in Names |-> 0]
    /\ csv = [f \in Names |-> CsvAbsent]
    /\ summary = [f \in Names |-> JsonAbsent]
    /\ visual = VisualAbsent
    /\ pandas = FALSE
    /\ openai \in OpenaiStates
    /\ weasyprint = FALSE
    /\ NoOutputs
    /\ NoSample
    /\ clock = StartTime
    /\ ret = NoResult

\* generate_text_summary(perf_anoms, visual_anoms, run_info) called once
GenerateTextSummary ==
    /\ ret.op = "none"
    /\ \E run_level \in RunLevels, per_page \in PerPages, visual_anoms \in VisualFindings :
          LET perf_anoms == [per_page |-> per_page, run_level |-> run_level]
          IN  ret' = [op |-> "summary",
                      perf_anoms |-> perf_anoms,
                      visual_anoms |-> visual_anoms,
                      result |-> generate_text_summary(perf_anoms, visual_anoms)]
    /\ UNCHANGED <<fsVars, envVars, outVars, sampleVars, clock>>

NextSummary == GenerateTextSummary

SpecSummary == InitSummary /\ [][NextSummary]_vars

(***************************************************************************)
(* Statements about the summary                                            *)
(***************************************************************************)
\* generate_text_summary returned the local summary
LocalReturned == ret.op = "summary" /\ ret.result.source = "local"

Lines == ret.result.text
\* the bullets: every line but the blank one and the heading
Bullets == SelectSeq(Lines, LAMBDA b : b.kind \notin {"blank", "heading"})
OfKind(kinds) == SelectSeq(Lines, LAMBDA b : b.kind \in kinds)

RunKinds == {"run_alert", "run_neutral"}
PageKinds == {"page_count", "page_pct", "page_outlier"}

\* C13: the Local summary is never empty, has source Local, ends with
\* exactly the two fixed recommendation bullets, and holds the single
\* stable bullet iff no run-level, per-page or visual bullet was produced;
\* for empty inputs the bullets are the stable one and the recommendations.
C13_LocalWellFormed ==
    (ret.op = "summary" /\ openai # "text") =>
        /\ ret.result.source = "local"
        /\ Lines # <<>>
        /\ Len(Bullets) >= 2
        /\ SubSeq(Bullets, Len(Bullets) - 1, Len(Bullets)) = Recommendations
        /\ SubSeq(Lines, Len(Lines) - 1, Len(Lines)) = Recommendations
        /\ Len(OfKind({"recommendation"})) = 2
        /\ Len(OfKind({"stable"})) =
              (IF OfKind(RunKinds \cup PageKinds \cup {"visual_count"}) = <<>> THEN 1 ELSE 0)
        /\ (ret.perf_anoms.run_level = <<>> /\ ret.perf_anoms.per_page = <<>>
               /\ ret.visual_anoms = <<>>)
              => Bullets = <<Bullet("stable", "", 0)>> \o Recommendations

\* nothing was found, with the collaborator failing: stable, then the two
\* recommendations
C13_Witness ==
    /\ LocalReturned
    /\ openai = "raises"
    /\ ret.perf_anoms.run_level = <<>>
    /\ ret.perf_anoms.per_page = <<>>
    /\ ret.visual_anoms = <<>>
    /\ Len(Bullets) = 3
    /\ Bullets[1].kind = "stable"

\* C14: the Local summary holds exactly one bullet for each
\* RunLevelComparison, a comparison against a previous average of 0
\* included, in the alert phrasing iff |percentChange| > 20 (which is the
\* record's alertFlag) and in the neutral phrasing otherwise.
C14_OneBulletPerComparison ==
    LocalReturned =>
        LET runs == ret.perf_anoms.run_level
            shown == OfKind(RunKinds)
        IN  /\ Len(shown) = Len(runs)
            /\ \A k \in 1..Len(runs) :
                  /\ shown[k].who = runs[k].previous_run
                  /\ shown[k].kind = "run_alert" <=> runs[k].alert

\* C14 on comparisons whose percent change is defined
C14_OnDefinedChanges ==
    (LocalReturned /\ \A k \in 1..Len(ret.perf_anoms.run_level) :
                          ~ret.perf_anoms.run_level[k].percent_change.none)
        => C14_OneBulletPerComparison

\* C15: with the collaborator enabled and failing (it raises, answers
\* without choices, or with an empty text) generate_text_summary returns
\* what it returns with the collaborator disabled, the Local summary of the
\* same findings; source External comes only with a non-empty text.
C15_FallbackOnFailure ==
    ret.op = "summary" =>
        /\ openai # "text" =>
              ret.result = LocalSummary(ret.perf_anoms, ret.visual_anoms)
        /\ ret.result.source \in {"local", "openai"}
        /\ ret.result.source = "openai" => (openai = "text" /\ ret.result.text # <<>>)

\* the collaborator answered with an empty text while there were findings
C15_Witness ==
    /\ LocalReturned
    /\ openai = "empty"
    /\ ret.perf_anoms.per_page # <<>>
    /\ ret.visual_anoms # <<>>
    /\ OfKind({"page_count"}) # <<>>

\* C17: with n > 0 per-page anomalies the Local summary holds one bullet
\* with the count n, immediately followed by min(4, n) sub-bullets for the
\* first min(4, n) anomalies in order, a PercentIncrease showing its
\* percent change and an InternalOutlier its time; with none it holds
\* neither.
C17_PageBullets ==
    LocalReturned =>
        LET per_page == ret.perf_anoms.per_page
            n == Len(per_page)
            shown == IF n < 4 THEN n ELSE 4
            at == {i \in 1..Len(Lines) : Lines[i].kind = "page_count"}
        IN  IF n = 0 THEN OfKind(PageKinds) = <<>>
            ELSE /\ Cardinality(at) = 1
                 /\ Len(OfKind(PageKinds)) = 1 + shown
                 /\ \A c \in at :
                       /\ Lines[c].num = n
                       /\ c + shown <= Len(Lines)
                       /\ \A k \in 1..shown :
                             /\ Lines[c + k].who = per_page[k].url
                             /\ IF per_page[k].reason = "percent_increase"
                                THEN /\ Lines[c + k].kind = "page_pct"
                                     /\ Lines[c + k].num = Round1(per_page[k].pct)
                                ELSE /\ Lines[c + k].kind = "page_outlier"
                                     /\ Lines[c + k].num = per_page[k].time

\* five anomalies, outliers and percent increases among the four shown
C17_Witness ==
    /\ LocalReturned
    /\ Len(ret.perf_anoms.per_page) = 5
    /\ Len(OfKind(PageKinds)) = 5
    /\ OfKind({"page_outlier"}) # <<>>
    /\ OfKind({"page_pct"}) # <<>>
    /\ ret.perf_anoms.per_page[5].reason = "percent_increase"

(***************************************************************************)
(* The analysis run again on unchanged files: main() as the script calls   *)
(* it, twice or more                                                       *)
(***************************************************************************)
\* the first invocation runs one step before StartTime, so that
\* MaxSteps + 1 invocations fit before the deadline
RepeatStart == StartTime - 1

RepeatSummaries ==
    {JsonFile(data) :
        data \in SeqsUpTo({JsonRecord("/a", Num(130)), JsonRecord("/b", Num(100))}, 2)}

RepeatVisuals == {VisualAbsent, VisualFile(<<VisualRecord("/a", NoUrl, Num(5))>>)}

InitRepeat ==
    /\ listing = <<LatestRun, PriorRun, "visual_diffs">>
    /\ mtime = [f \in Names |->
                  IF f = PriorRun THEN 1 ELSE IF f = "charts" THEN 0 ELSE 2]
    /\ csv = [f \in Names |-> CsvAbsent]
    /\ \E l \in RepeatSummaries, pr \in {JsonAbsent, OneRecord} :
          summary = [f \in Names |->
                        IF f = LatestRun THEN l ELSE IF f = PriorRun THEN pr
                        ELSE JsonAbsent]
    /\ visual \in RepeatVisuals
    /\ pandas = FALSE
    /\ openai = "off"
    /\ weasyprint \in BOOLEAN
    /\ report \in {ReportAbsent, ReportFile(FALSE, <<>>), ReportFile(TRUE, <<>>)}
    /\ pdf = NoFile
    /\ insights = NoFile
    /\ snippet = NoFile
    /\ NoSample
    /\ clock = RepeatStart
    /\ ret = NoResult

\* Lines 456-457: main() with its default arguments
MainAsScript ==
    /\ clock < Deadline
    /\ clock' = clock + 1
    /\ UNCHANGED <<fsVars, envVars, sampleVars>>
    /\ \E done \in {Analyze} : MainCall(done, TRUE, TRUE)

NextRepeat == MainAsScript

SpecRepeat == InitRepeat /\ [][NextRepeat]_vars

(***************************************************************************)
(* Statements about repeated invocation                                    *)
(***************************************************************************)
\* a payload, a snippet, their files and the report without the times of making
Untimed(payload) == [payload EXCEPT !.timestamp = 0]
UntimedSnippet(snip) == [snip EXCEPT !.ts = 0]
UntimedInsights(file) ==
    IF file.exists THEN [file EXCEPT !.content = Untimed(file.content)] ELSE file
UntimedSnippetFile(file) ==
    IF file.exists THEN [file EXCEPT !.content = UntimedSnippet(file.content)] ELSE file
UntimedReport(rep) ==
    [rep EXCEPT !.injected = [k \in 1..Len(rep.injected) |-> UntimedSnippet(rep.injected[k])]]

\* the same payload apart from the timestamp
SamePayload ==
    /\ ~ret'.raised
    /\ Untimed(ret'.payload) = Untimed(ret.payload)

\* C16: main invoked again on unchanged run and visual-diff files returns
\* the same payload as before apart from the timestamp, and leaves the
\* persisted outputs (insights JSON, snippet, report) as they were after
\* the invocation before, apart from the timestamp.
C16_RepeatIsIdempotent ==
    [][(ret.op = "main" /\ ~ret.raised /\ ret'.op = "main") =>
          /\ SamePayload
          /\ UntimedInsights(insights') = UntimedInsights(insights)
          /\ UntimedSnippetFile(snippet') = UntimedSnippetFile(snippet)
          /\ UntimedReport(report') = UntimedReport(report)]_vars

\* C16 without the report: the payload, the insights JSON and the snippet
C16_PayloadAndFiles ==
    [][(ret.op = "main" /\ ~ret.raised /\ ret'.op = "main") =>
          /\ SamePayload
          /\ UntimedInsights(insights') = UntimedInsights(insights)
          /\ UntimedSnippetFile(snippet') = UntimedSnippetFile(snippet)]_vars

====
